---- MODULE Spec2Model ----
(***************************************************************************)
(* Model of the napi command-line front end (crates/cli): main.rs          *)
(* dispatches the parsed sub-command, build.rs translates a BuildCommand   *)
(* into one `cargo build` subprocess invocation.                           *)
(*                                                                         *)
(* Conventions.  Option<T> is a sequence of length 0 (None) or 1 (Some).   *)
(* Command-line words (arguments, names, triples) are TLA+ strings.  A     *)
(* path is a sequence of one-character strings, so that the naming         *)
(* pattern of the intermediate file can be stated character by character.  *)
(* The temporary directory is taken to be valid UTF-8, so that             *)
(* Path::to_str in set_envs returns Some.                                  *)
(***************************************************************************)
EXTENDS Integers, Sequences, FiniteSets, TLC

VARIABLES
  parsed,      \* the BuildCommand as clap produced it (never modified)
  subcommand,  \* the SubCommand variant main dispatches on
  self,        \* the BuildCommand the build methods mutate
  cmd,         \* the std::process::Command under construction
  pc,          \* position of the parent process
  trail,       \* the steps of the pipeline taken so far, in order
  logLevel,    \* log::max_level()
  result,      \* what execute() returned: "none", "Ok" or "Err"
  exitCode,    \* exit status of the parent, -1 while it runs
  child,       \* the spawned cargo: "none", "running", "succeeded", "failed"
  spawns,      \* number of successful Command::spawn calls
  host         \* the default target triple of the machine's toolchain

vars == <<parsed, subcommand, self, cmd, pc, trail, logLevel, result,
          exitCode, child, spawns, host>>

-----------------------------------------------------------------------------
(* Bounds and input domains *)

MaxNames == 2     \* longest feature / package / exclude / passthrough list
MaxSeed == 1      \* the rng produces one of MaxSeed + 1 byte vectors

None == <<>>
Some(v) == <<v>>
IsSome(o) == Len(o) = 1

Range(s) == {s[i] : i \in 1..Len(s)}
SeqsUpTo(S, n) == UNION {[1..k -> S] : k \in 0..n}

X32Triple == "i686-pc-windows-msvc"
Triples == {X32Triple, "x86_64-unknown-linux-gnu"}
HostTargets == Triples
FeatureNames == {"f1", "f2"}
PackageNames == {"crate_a", "crate_b"}
BypassWords == {"--locked", "--release"}
Dirs == {"proj"}

TargetOpts == {None} \cup {Some(t) : t \in Triples}
CwdOpts == {None} \cup {Some(d) : d \in Dirs}

FeaturesAll ==
  [all_features : BOOLEAN, no_default_features : BOOLEAN,
   features : SeqsUpTo(FeatureNames, MaxNames)]
NoFeatures ==
  [all_features |-> FALSE, no_default_features |-> FALSE, features |-> <<>>]
FeaturesFew ==
  {NoFeatures,
   [all_features |-> TRUE, no_default_features |-> FALSE, features |-> <<"f1">>],
   [all_features |-> FALSE, no_default_features |-> FALSE, features |-> <<"f2", "f1">>]}

WorkspaceAll ==
  [all : BOOLEAN, workspace : BOOLEAN,
   package : SeqsUpTo(PackageNames, MaxNames),
   exclude : SeqsUpTo(PackageNames, MaxNames)]
NoWorkspace ==
  [all |-> FALSE, workspace |-> FALSE, package |-> <<>>, exclude |-> <<>>]
WorkspaceFew ==
  {NoWorkspace,
   [all |-> FALSE, workspace |-> FALSE, package |-> <<"crate_a">>, exclude |-> <<>>],
   [all |-> FALSE, workspace |-> TRUE, package |-> <<>>, exclude |-> <<"crate_b">>]}

BypassAll == SeqsUpTo(BypassWords, MaxNames)
BypassFew == {<<>>, <<"--locked">>}

\* The fields no build method reads after execute().
OthersAll ==
  [js_binding : {None, Some("index.js")}, disable_js_binding : BOOLEAN,
   dest : {None, Some("dist")}, strip : BOOLEAN,
   pipe : {None, Some("prettier -w")}, release : BOOLEAN, verbose : BOOLEAN,
   zig : BOOLEAN, zip_abi_suffix : {None, Some("2.17")}]
NoOthers ==
  [js_binding |-> None, disable_js_binding |-> FALSE, dest |-> None,
   strip |-> FALSE, pipe |-> None, release |-> FALSE, verbose |-> FALSE,
   zig |-> FALSE, zip_abi_suffix |-> None]
OthersFew == {NoOthers, [NoOthers EXCEPT !.release = TRUE]}

EmptyPath == <<>>

BuildCommand(t, x, c, f, w, b, o) ==
  [target |-> t, js_binding |-> o.js_binding,
   disable_js_binding |-> o.disable_js_binding, cwd |-> c, dest |-> o.dest,
   strip |-> o.strip, pipe |-> o.pipe, release |-> o.release,
   verbose |-> o.verbose, features |-> f, workspace |-> w,
   disable_windows_x32_optimize |-> x, zig |-> o.zig,
   zip_abi_suffix |-> o.zip_abi_suffix,
   intermediate_type_file |-> EmptyPath, bypass_flags |-> b]

DefaultCommand ==
  BuildCommand(None, FALSE, None, NoFeatures, NoWorkspace, <<>>, NoOthers)

\* The requests explored: each family lets one group of options range over
\* its whole domain and the others over a few values.
Requests ==
  {BuildCommand(t, FALSE, None, f, NoWorkspace, b, NoOthers) :
     t \in TargetOpts, f \in FeaturesAll, b \in BypassFew}
  \cup
  {BuildCommand(t, FALSE, None, f, w, <<>>, NoOthers) :
     t \in {None, Some("x86_64-unknown-linux-gnu")}, f \in FeaturesFew,
     w \in WorkspaceAll}
  \cup
  {BuildCommand(t, x, c, f, w, b, NoOthers) :
     t \in TargetOpts, x \in BOOLEAN, c \in CwdOpts, f \in FeaturesFew,
     w \in WorkspaceFew, b \in BypassFew}
  \cup
  {BuildCommand(t, FALSE, None, f, w, b, o) :
     t \in {None, Some("x86_64-unknown-linux-gnu")}, f \in FeaturesFew,
     w \in WorkspaceFew, b \in BypassAll, o \in OthersFew}
  \cup
  {BuildCommand(t, TRUE, c, NoFeatures, NoWorkspace, <<"--locked">>, o) :
     t \in {None, Some(X32Triple)}, c \in CwdOpts, o \in OthersAll}

-----------------------------------------------------------------------------
(* get_intermediate_type_file *)

len == 16

\* The byte vectors rng.fill_bytes may produce (a sample of 256^len).
RandomData ==
  {[i \in 1..len |-> (seed * 97 + i * 47) % 256] : seed \in 0..MaxSeed}

TempDirs == {<<"/", "t", "m", "p">>, <<"/", "t", "m", "p", "/">>}

UpperHex ==
  <<"0", "1", "2", "3", "4", "5", "6", "7", "8", "9",
    "A", "B", "C", "D", "E", "F">>
LowerHex ==
  <<"0", "1", "2", "3", "4", "5", "6", "7", "8", "9",
    "a", "b", "c", "d", "e", "f">>

RECURSIVE Digits(_, _)
Digits(n, alphabet) ==
  IF n < 16 THEN <<alphabet[n + 1]>>
  ELSE Digits(n \div 16, alphabet) \o <<alphabet[(n % 16) + 1]>>

RECURSIVE PadLeft(_, _, _)
PadLeft(s, width, c) ==
  IF Len(s) >= width THEN s ELSE PadLeft(<<c>> \o s, width, c)

format_02x_lower(byte) == PadLeft(Digits(byte, LowerHex), 2, "0")
\* write!(hex_string, "{:02X}", byte)
format_02X(byte) == PadLeft(Digits(byte, UpperHex), 2, "0")

RECURSIVE hex_string(_)
hex_string(data) ==
  IF data = <<>> THEN <<>>
  ELSE format_02X(Head(data)) \o hex_string(Tail(data))

\* PathBuf::join: a separator is inserted unless the base already ends in one.
join(dir, file) ==
  IF dir # <<>> /\ dir[Len(dir)] = "/" THEN dir \o file
  ELSE dir \o <<"/">> \o file

FilePrefix == <<"t", "y", "p", "e", "_", "d", "e", "f", ".">>
FileSuffix == <<".", "t", "m", "p">>

file_name(data) == FilePrefix \o hex_string(data) \o FileSuffix

get_intermediate_type_file(dir, data) == join(dir, file_name(data))

-----------------------------------------------------------------------------
(* std::process::Command *)

NoEnvs == [k \in {} |-> ""]

\* Command::new(program)
new(program) ==
  [program |-> program, args |-> <<>>, current_dir |-> None, envs |-> NoEnvs]

\* Command::arg / Command::args: the words are appended, in order.
args(c, words) == [c EXCEPT !.args = @ \o words]

\* Command::env: inserts the variable, replacing an earlier value.
env(c, k, v) ==
  [c EXCEPT !.envs = [n \in DOMAIN @ \cup {k} |-> IF n = k THEN v ELSE @[n]]]

RECURSIVE env_each(_, _)
env_each(c, envs) ==
  IF envs = <<>> THEN c
  ELSE env_each(env(c, Head(envs)[1], Head(envs)[2]), Tail(envs))

-----------------------------------------------------------------------------
(* BuildCommand: the methods run() chains, as functions of (self, cmd) *)

set_cwd(s, c) ==
  IF IsSome(s.cwd) THEN [c EXCEPT !.current_dir = s.cwd] ELSE c

set_features_no_else(s, c) ==
  args(c,
       (IF s.features.all_features THEN <<"--all-features">> ELSE <<>>)
       \o (IF s.features.no_default_features
             THEN <<"--no-default-features">> ELSE <<>>)
       \o (IF s.features.features # <<>>
             THEN <<"--features">> \o s.features.features ELSE <<>>))
set_features_release(s, c) ==
  args(c,
       (IF s.release THEN <<"--release">> ELSE <<>>)
       \o (IF s.features.all_features THEN <<"--all-features">>
           ELSE IF s.features.no_default_features
             THEN <<"--no-default-features">>
           ELSE IF s.features.features # <<>>
             THEN <<"--features">> \o s.features.features
           ELSE <<>>))
set_features(s, c) ==
  args(c,
       IF s.features.all_features THEN <<"--all-features">>
       ELSE IF s.features.no_default_features THEN <<"--no-default-features">>
       ELSE IF s.features.features # <<>>
         THEN <<"--features">> \o s.features.features
       ELSE <<>>)

set_workspace_exclude_else(s, c) ==
  args(c,
       IF s.workspace.all \/ s.workspace.workspace THEN <<"--workspace">>
       ELSE IF s.workspace.package # <<>>
         THEN <<"-p">> \o s.workspace.package
       ELSE IF s.workspace.exclude # <<>>
         THEN <<"--exclude">> \o s.workspace.exclude
       ELSE <<>>)
set_workspace(s, c) ==
  args(c,
       (IF s.workspace.all \/ s.workspace.workspace THEN <<"--workspace">>
        ELSE IF s.workspace.package # <<>>
          THEN <<"-p">> \o s.workspace.package
        ELSE <<>>)
       \o (IF s.workspace.exclude # <<>>
             THEN <<"--exclude">> \o s.workspace.exclude
           ELSE <<>>))

\* util::get_system_default_target(): the toolchain's default triple.
\* Detection is taken to succeed.
get_system_default_target == host

\* h is what get_system_default_target() returns if it is called.
set_target_always_arg(s, c, h) ==
  IF IsSome(s.target)
    THEN [self |-> s, cmd |-> args(c, <<"--target", s.target[1]>>)]
    ELSE [self |-> [s EXCEPT !.target = Some(h)],
          cmd |-> args(c, <<"--target", h>>)]
set_target_no_store(s, c, h) ==
  IF IsSome(s.target)
    THEN [self |-> s, cmd |-> args(c, <<"--target", s.target[1]>>)]
    ELSE [self |-> s, cmd |-> c]
set_target(s, c, h) ==
  IF IsSome(s.target)
    THEN [self |-> s, cmd |-> args(c, <<"--target", s.target[1]>>)]
    ELSE [self |-> [s EXCEPT !.target = Some(h)], cmd |-> c]

CompatEnvs ==
  <<<<"CARGO_PROFILE_DEBUG_CODEGEN_UNITS", "256">>,
    <<"CARGO_PROFILE_RELEASE_CODEGEN_UNITS", "256">>,
    <<"CARGO_PROFILE_RELEASE_LTO", "\"off\"">>>>

set_envs_any_target(s, c) ==
  env_each(c,
           <<<<"TYPE_DEF_TMP_PATH", s.intermediate_type_file>>>>
           \o (IF s.disable_windows_x32_optimize THEN CompatEnvs ELSE <<>>))
set_envs(s, c) ==
  env_each(c,
           <<<<"TYPE_DEF_TMP_PATH", s.intermediate_type_file>>>>
           \o (IF s.disable_windows_x32_optimize
                  /\ s.target = Some(X32Triple)
                 THEN CompatEnvs ELSE <<>>))

set_bypass_args_first(s, c) == [c EXCEPT !.args = s.bypass_flags \o @]
set_bypass_args(s, c) == args(c, s.bypass_flags)

\* main.rs: execute().unwrap_or_else(|()| exit(1)), then main returns.
run_command_zero(r) == 0
run_command(r) == IF r = "Err" THEN 1 ELSE 0

-----------------------------------------------------------------------------
(* The processes *)

Pipeline ==
  <<"main", "execute", "run", "set_cwd", "set_features", "set_workspace",
    "set_target", "set_envs", "set_bypass_args", "spawn", "exit">>

Init ==
  /\ \/ subcommand = "Build" /\ parsed \in Requests
     \/ subcommand = "New" /\ parsed = DefaultCommand
  /\ self = parsed
  /\ cmd = new("none")
  /\ pc = "main"
  /\ trail = <<>>
  /\ logLevel = "Off"
  /\ result = "none"
  /\ exitCode = -1
  /\ child = "none"
  /\ spawns = 0
  /\ host \in HostTargets

Goto(here, there) ==
  /\ pc = here
  /\ pc' = there
  /\ trail' = Append(trail, here)

\* main(): Cli::parse() has run; install the logger, dispatch.
Main ==
  /\ Goto("main", "execute")
  /\ logLevel' = "Info"
  /\ UNCHANGED <<parsed, subcommand, self, cmd, result, exitCode, child, spawns, host>>

\* BuildCommand::execute up to the call of run().
BuildExecute ==
  /\ subcommand = "Build"
  /\ Goto("execute", "run")
  /\ logLevel' = IF self.verbose THEN "Trace" ELSE logLevel
  /\ UNCHANGED <<parsed, subcommand, self, cmd, result, exitCode, child, spawns, host>>

\* NewCommand::execute: scaffolds a project and reports success or failure.
NewExecute ==
  /\ subcommand = "New"
  /\ Goto("execute", "exit")
  /\ result' \in {"Ok", "Err"}
  /\ UNCHANGED <<parsed, subcommand, self, cmd, logLevel, exitCode, child, spawns, host>>

\* run(): the intermediate file, Command::new("cargo"), arg("build").
Run ==
  /\ Goto("run", "set_cwd")
  /\ \E dir \in TempDirs, data \in RandomData :
       self' = [self EXCEPT
                  !.intermediate_type_file = get_intermediate_type_file(dir, data)]
  /\ cmd' = args(new("cargo"), <<"build">>)
  /\ UNCHANGED <<parsed, subcommand, logLevel, result, exitCode, child, spawns, host>>

SetCwd ==
  /\ Goto("set_cwd", "set_features")
  /\ cmd' = set_cwd(self, cmd)
  /\ UNCHANGED <<parsed, subcommand, self, logLevel, result, exitCode, child, spawns, host>>

SetFeatures ==
  /\ Goto("set_features", "set_workspace")
  /\ cmd' = set_features(self, cmd)
  /\ UNCHANGED <<parsed, subcommand, self, logLevel, result, exitCode, child, spawns, host>>

SetWorkspace ==
  /\ Goto("set_workspace", "set_target")
  /\ cmd' = set_workspace(self, cmd)
  /\ UNCHANGED <<parsed, subcommand, self, logLevel, result, exitCode, child, spawns, host>>

SetTarget ==
  /\ Goto("set_target", "set_envs")
  /\ self' = set_target(self, cmd, get_system_default_target).self
  /\ cmd' = set_target(self, cmd, get_system_default_target).cmd
  /\ UNCHANGED <<parsed, subcommand, logLevel, result, exitCode, child, spawns, host>>

SetEnvs ==
  /\ Goto("set_envs", "set_bypass_args")
  /\ cmd' = set_envs(self, cmd)
  /\ UNCHANGED <<parsed, subcommand, self, logLevel, result, exitCode, child, spawns, host>>

SetBypassArgs ==
  /\ Goto("set_bypass_args", "spawn")
  /\ cmd' = set_bypass_args(self, cmd)
  /\ UNCHANGED <<parsed, subcommand, self, logLevel, result, exitCode, child, spawns, host>>

\* A failed spawn that is tried again instead of aborting.
SpawnRetry ==
  /\ pc = "spawn"
  /\ trail' = Append(trail, "spawn")
  /\ \/ /\ child' = "running"
        /\ spawns' = spawns + 1
        /\ pc' = IF spawns = 0 THEN "spawn" ELSE "exit"
        /\ result' = IF spawns = 0 THEN result ELSE "Ok"
        /\ exitCode' = exitCode
     \/ /\ pc' = "aborted"
        /\ exitCode' = 101
        /\ UNCHANGED <<result, child, spawns>>
  /\ UNCHANGED <<parsed, subcommand, self, cmd, logLevel, host>>

\* cmd.spawn().expect(..): the child starts and run(), then execute(), return
\* Ok(()); or the spawn fails and the panic ends the process (status 101).
Spawn ==
  /\ \/ /\ Goto("spawn", "exit")
        /\ child' = "running"
        /\ spawns' = spawns + 1
        /\ result' = "Ok"
        /\ exitCode' = exitCode
     \/ /\ Goto("spawn", "aborted")
        /\ exitCode' = 101
        /\ UNCHANGED <<result, child, spawns>>
  /\ UNCHANGED <<parsed, subcommand, self, cmd, logLevel, host>>

\* run_command!: exit(1) on Err, otherwise main returns (status 0).
Exit ==
  /\ Goto("exit", "exited")
  /\ exitCode' = run_command(result)
  /\ UNCHANGED <<parsed, subcommand, self, cmd, logLevel, result, child, spawns, host>>

\* The child runs on its own and ends with success or failure.
ChildExit ==
  /\ child = "running"
  /\ child' \in {"succeeded", "failed"}
  /\ UNCHANGED <<parsed, subcommand, self, cmd, pc, trail, logLevel, result,
                 exitCode, spawns, host>>

Next ==
  \/ Main
  \/ BuildExecute
  \/ NewExecute
  \/ Run
  \/ SetCwd
  \/ SetFeatures
  \/ SetWorkspace
  \/ SetTarget
  \/ SetEnvs
  \/ SetBypassArgs
  \/ Spawn
  \/ Exit
  \/ ChildExit

Spec == Init /\ [][Next]_vars

-----------------------------------------------------------------------------
(* Vocabulary of the properties *)

Done(step) == step \in Range(trail)

IsBuild == subcommand = "Build"

\* The arguments the build methods generated: all of them until the
\* passthrough words are appended, and all but that suffix afterwards.
CoreArgs ==
  IF Done("set_bypass_args")
    THEN SubSeq(cmd.args, 1, Len(cmd.args) - Len(parsed.bypass_flags))
    ELSE cmd.args

\* The words cmd' has after cmd's.
Appended == SubSeq(cmd'.args, Len(cmd.args) + 1, Len(cmd'.args))
OnlyAppends ==
  /\ Len(cmd'.args) >= Len(cmd.args)
  /\ SubSeq(cmd'.args, 1, Len(cmd.args)) = cmd.args

Occurs(word, words) == word \in Range(words)

CompatNames ==
  {"CARGO_PROFILE_DEBUG_CODEGEN_UNITS", "CARGO_PROFILE_RELEASE_CODEGEN_UNITS",
   "CARGO_PROFILE_RELEASE_LTO"}

\* The target the build is for: the explicit one, else the host default.
ResolvedTarget == IF IsSome(parsed.target) THEN parsed.target[1] ELSE host

WholeWorkspace == parsed.workspace.all \/ parsed.workspace.workspace

-----------------------------------------------------------------------------
(* C1: set_features emits exactly one of --all-features, *)
(* --no-default-features, --features followed by the listed names in order, *)
(* or nothing, chosen by the priority all_features > no_default_features > *)
(* non-empty list > nothing. *)
C1_FeaturePriority ==
  (IsBuild /\ pc = "set_workspace") =>
    LET f == parsed.features
        out == Tail(cmd.args)
    IN /\ Head(cmd.args) = "build"
       /\ f.all_features => out = <<"--all-features">>
       /\ (~f.all_features /\ f.no_default_features) =>
            out = <<"--no-default-features">>
       /\ (~f.all_features /\ ~f.no_default_features /\ f.features # <<>>) =>
            out = <<"--features">> \o f.features
       /\ (~f.all_features /\ ~f.no_default_features /\ f.features = <<>>) =>
            out = <<>>

C1_Witness ==
  /\ pc = "set_workspace"
  /\ parsed.features.all_features
  /\ parsed.features.no_default_features
  /\ Len(parsed.features.features) = 2
  /\ cmd.args = <<"build", "--all-features">>

(* C2: set_workspace never emits both --workspace and -p; --workspace when *)
(* the whole workspace is requested, otherwise -p and the package names *)
(* only when the package list is non-empty; then, independently, --exclude *)
(* and the excluded names exactly when the exclude list is non-empty. *)
C2_WorkspaceFlags ==
  [][(IsBuild /\ pc = "set_workspace") =>
       LET w == parsed.workspace
           first == IF WholeWorkspace THEN <<"--workspace">>
                    ELSE IF w.package # <<>> THEN <<"-p">> \o w.package
                    ELSE <<>>
           excl == IF w.exclude # <<>> THEN <<"--exclude">> \o w.exclude
                   ELSE <<>>
       IN /\ OnlyAppends
          /\ Appended = first \o excl
          /\ ~(Occurs("--workspace", Appended) /\ Occurs("-p", Appended))
          /\ Occurs("--exclude", Appended) <=> w.exclude # <<>>]_vars

C2_Witness ==
  /\ pc = "set_target"
  /\ WholeWorkspace
  /\ parsed.workspace.package # <<>>
  /\ Len(parsed.workspace.exclude) = 2
  /\ Occurs("--workspace", cmd.args)
  /\ ~Occurs("-p", cmd.args)
  /\ Occurs("--exclude", cmd.args)

(* C3: once the environment step has run, the three compatibility *)
(* variables are set on the child iff disable_windows_x32_optimize is set *)
(* and the resolved target (explicit, else host default) is *)
(* i686-pc-windows-msvc; otherwise none of the three is set. *)
C3_CompatEnvs ==
  (IsBuild /\ Done("set_envs")) =>
    IF parsed.disable_windows_x32_optimize /\ ResolvedTarget = X32Triple
      THEN /\ CompatNames \subseteq DOMAIN cmd.envs
           /\ cmd.envs["CARGO_PROFILE_DEBUG_CODEGEN_UNITS"] = "256"
           /\ cmd.envs["CARGO_PROFILE_RELEASE_CODEGEN_UNITS"] = "256"
           /\ cmd.envs["CARGO_PROFILE_RELEASE_LTO"] = "\"off\""
      ELSE CompatNames \cap DOMAIN cmd.envs = {}

C3_Witness ==
  /\ pc = "spawn"
  /\ parsed.target = None
  /\ host = X32Triple
  /\ parsed.disable_windows_x32_optimize
  /\ CompatNames \subseteq DOMAIN cmd.envs

UpperHexChars == Range(UpperHex)

IsTypeDefName(name) ==
  /\ Len(name) = Len(FilePrefix) + 2 * len + Len(FileSuffix)
  /\ SubSeq(name, 1, Len(FilePrefix)) = FilePrefix
  /\ \A i \in (Len(FilePrefix) + 1)..(Len(FilePrefix) + 2 * len) :
       name[i] \in UpperHexChars
  /\ SubSeq(name, Len(name) - Len(FileSuffix) + 1, Len(name)) = FileSuffix
  /\ ~Occurs("/", name)

DirectlyUnder(path, dir) ==
  LET base == IF dir[Len(dir)] = "/" THEN dir ELSE dir \o <<"/">>
  IN /\ Len(path) > Len(base)
     /\ SubSeq(path, 1, Len(base)) = base
     /\ IsTypeDefName(SubSeq(path, Len(base) + 1, Len(path)))

(* C6: every build invocation sets TYPE_DEF_TMP_PATH on the child to the *)
(* intermediate-file path generated at the start of the invocation, a file *)
(* type_def.<32 uppercase hex characters>.tmp directly under the temporary *)
(* directory; no environment name or value is among the arguments. *)
C6_TypeDefTmpPath ==
  /\ (IsBuild /\ Done("run")) =>
       \E dir \in TempDirs : DirectlyUnder(self.intermediate_type_file, dir)
  /\ (IsBuild /\ Done("set_envs")) =>
       /\ "TYPE_DEF_TMP_PATH" \in DOMAIN cmd.envs
       /\ cmd.envs["TYPE_DEF_TMP_PATH"] = self.intermediate_type_file
       /\ \A k \in DOMAIN cmd.envs :
            /\ ~Occurs(k, CoreArgs)
            /\ k \in CompatNames => ~Occurs(cmd.envs[k], CoreArgs)

C6_Witness ==
  /\ pc = "spawn"
  /\ parsed.disable_windows_x32_optimize
  /\ DOMAIN cmd.envs = CompatNames \cup {"TYPE_DEF_TMP_PATH"}
  /\ cmd.envs["TYPE_DEF_TMP_PATH"] = self.intermediate_type_file
  /\ self.intermediate_type_file[5] = "/"
  /\ self.intermediate_type_file[6] = "t"
  /\ self.intermediate_type_file[15] = "2"
  /\ self.intermediate_type_file[16] = "F"

\* The steps of the parent process of a build.
ParentStep ==
  \/ Main
  \/ BuildExecute
  \/ Run
  \/ SetCwd
  \/ SetFeatures
  \/ SetWorkspace
  \/ SetTarget
  \/ SetEnvs
  \/ SetBypassArgs
  \/ Spawn
  \/ Exit

C8_ExitCode ==
  /\ pc = "exited" =>
       /\ exitCode = 1 <=> result = "Err"
       /\ exitCode = 0 <=> result = "Ok"
       /\ result \in {"Ok", "Err"}
  /\ exitCode = 1 => (pc = "exited" /\ result = "Err")
  /\ (IsBuild /\ pc = "exited") => (spawns = 1 /\ exitCode = 0)
  /\ (IsBuild /\ result # "none") => (result = "Ok" /\ spawns = 1)

C8_Witness ==
  /\ IsBuild
  /\ pc = "exited"
  /\ child = "failed"
  /\ exitCode = 0

(* C9: no flag is generated for an unset selection: the request with no *)
(* target, features, workspace, exclude or passthrough yields exactly *)
(* build, and each flag occurs among the generated arguments only if its *)
(* selection was set. *)
C9_NoFlagWhenUnset ==
  (IsBuild /\ Done("set_bypass_args")) =>
    /\ (/\ parsed.target = None
        /\ parsed.features = NoFeatures
        /\ parsed.workspace = NoWorkspace
        /\ parsed.bypass_flags = <<>>) => cmd.args = <<"build">>
    /\ Occurs("--all-features", CoreArgs) => parsed.features.all_features
    /\ Occurs("--no-default-features", CoreArgs) =>
         parsed.features.no_default_features
    /\ Occurs("--features", CoreArgs) => parsed.features.features # <<>>
    /\ Occurs("--workspace", CoreArgs) => WholeWorkspace
    /\ Occurs("-p", CoreArgs) => parsed.workspace.package # <<>>
    /\ Occurs("--exclude", CoreArgs) => parsed.workspace.exclude # <<>>
    /\ Occurs("--target", CoreArgs) => IsSome(parsed.target)

C9_Witness ==
  /\ pc = "spawn"
  /\ parsed.target = None
  /\ IsSome(parsed.cwd)
  /\ parsed.disable_windows_x32_optimize
  /\ cmd.args = <<"build">>

\* run() as one function: the Command it hands to spawn.
Invocation(s, h) ==
  LET c1 == set_cwd(s, args(new("cargo"), <<"build">>))
      c2 == set_features(s, c1)
      c3 == set_workspace(s, c2)
      t == set_target(s, c3, h)
      c5 == set_envs(t.self, t.cmd)
  IN set_bypass_args(t.self, c5)

\* The request with the fields of OthersAll unset.
Canonical(s) ==
  BuildCommand(s.target, s.disable_windows_x32_optimize, s.cwd, s.features,
               s.workspace, s.bypass_flags, NoOthers)

====
